---- MODULE Spec2Model ----
(***************************************************************************)
(* Bank accounts (BankAccount, SavingsAccount, CurrentAccount,             *)
(* FixedDepositAccount) and the Bank registry of src/OOP_1.py.             *)
(*                                                                         *)
(* Amounts are Python floats, given in hundredths as the literals 0.5,     *)
(* 0.65, ... are read, and every operation on them is rounded as IEEE 754  *)
(* binary64 rounds it.                                                     *)
(*                                                                         *)
(* Time is counted in whole days: datetime.now() is the variable now, and  *)
(* timedelta(days = n) is n.                                               *)
(***************************************************************************)
EXTENDS Integers, Sequences, FiniteSets, TLC

VARIABLES heap, accounts, now, nops, last

vars == <<heap, accounts, now, nops, last>>

-----------------------------------------------------------------------------
(* Bounds of the model. *)

\* Number of deposit / withdraw / apply_interest / transfer_funds calls.
MaxOps == 1

\* Last day the clock reaches.
MaxTime == 1

\* Object identities, in allocation order.
RefOrder == <<"o1", "o2">>

\* Account numbers, in order of first use (account numbers are opaque keys,
\* so a new object takes a number already in use or the next unused one).
IdOrder == <<"S1001", "C1001">>

Ids == {IdOrder[i] : i \in 1..Len(IdOrder)}

-----------------------------------------------------------------------------
(* Natural numbers of any size: limbs to the base 2^12, lowest first, no   *)
(* leading zero limb; <<>> is 0.                                           *)

Base == 2^12

RECURSIVE Trim(_)
Trim(a) ==
    IF a = <<>> THEN a
    ELSE IF a[Len(a)] = 0 THEN Trim(SubSeq(a, 1, Len(a) - 1)) ELSE a

Limb(a) == IF a = <<>> THEN 0 ELSE Head(a)

Rest(a) == IF a = <<>> THEN a ELSE Tail(a)

RECURSIVE NatAddC(_, _, _)
NatAddC(a, b, carry) ==
    IF a = <<>> /\ b = <<>> THEN (IF carry = 0 THEN <<>> ELSE <<carry>>)
    ELSE LET x == Limb(a) + Limb(b) + carry
         IN  <<x % Base>> \o NatAddC(Rest(a), Rest(b), x \div Base)

NatAdd(a, b) == NatAddC(a, b, 0)

RECURSIVE NatSubB(_, _, _)
NatSubB(a, b, borrow) ==
    IF a = <<>> THEN <<>>
    ELSE LET x == Limb(a) - Limb(b) - borrow
         IN  IF x < 0 THEN <<x + Base>> \o NatSubB(Rest(a), Rest(b), 1)
             ELSE <<x>> \o NatSubB(Rest(a), Rest(b), 0)

\* a - b, for a >= b.
NatSub(a, b) == Trim(NatSubB(a, b, 0))

\* -1, 0 or 1 as a < b, a = b or a > b.
RECURSIVE NatCmp(_, _)
NatCmp(a, b) ==
    IF Len(a) # Len(b) THEN (IF Len(a) < Len(b) THEN -1 ELSE 1)
    ELSE IF a = <<>> THEN 0
    ELSE IF a[Len(a)] # b[Len(b)] THEN (IF a[Len(a)] < b[Len(b)] THEN -1 ELSE 1)
    ELSE NatCmp(SubSeq(a, 1, Len(a) - 1), SubSeq(b, 1, Len(b) - 1))

\* a * k, for a limb-sized k.
RECURSIVE NatMulSmallC(_, _, _)
NatMulSmallC(a, k, carry) ==
    IF a = <<>> THEN (IF carry = 0 THEN <<>>
                      ELSE <<carry % Base>> \o NatMulSmallC(a, k, carry \div Base))
    ELSE LET x == Head(a) * k + carry
         IN  <<x % Base>> \o NatMulSmallC(Tail(a), k, x \div Base)

NatMulSmall(a, k) == Trim(NatMulSmallC(a, k, 0))

RECURSIVE NatMul(_, _)
NatMul(a, b) ==
    IF a = <<>> \/ b = <<>> THEN <<>>
    ELSE NatAdd(NatMulSmall(a, Head(b)),
                LET hi == NatMul(a, Tail(b))
                IN  IF hi = <<>> THEN hi ELSE <<0>> \o hi)

\* Quotient (untrimmed) and remainder of a by a limb-sized d.
RECURSIVE NatDivStep(_, _)
NatDivStep(a, d) ==
    IF a = <<>> THEN [q |-> <<>>, r |-> 0]
    ELSE LET hi == NatDivStep(Tail(a), d)
             cur == hi.r * Base + Head(a)
         IN  [q |-> <<cur \div d>> \o hi.q, r |-> cur % d]

NatDivSmall(a, d) ==
    LET x == NatDivStep(a, d) IN [q |-> Trim(x.q), r |-> x.r]

RECURSIVE BitLenSmall(_)
BitLenSmall(n) == IF n = 0 THEN 0 ELSE 1 + BitLenSmall(n \div 2)

BitLen(a) == IF a = <<>> THEN 0 ELSE 12 * (Len(a) - 1) + BitLenSmall(a[Len(a)])

IsOdd(a) == a # <<>> /\ a[1] % 2 = 1

\* a * 2^s.
ShiftLeft(a, s) ==
    IF a = <<>> \/ s = 0 THEN a
    ELSE [i \in 1..(s \div 12) |-> 0] \o NatMulSmall(a, 2^(s % 12))

\* floor(a / 2^s), and whether a bit was shifted out.
ShiftRight(a, s) ==
    LET k == IF s \div 12 < Len(a) THEN s \div 12 ELSE Len(a)
        d == NatDivSmall(SubSeq(a, k + 1, Len(a)), 2^(s % 12))
    IN  [q |-> d.q, sticky |-> d.r # 0 \/ \E i \in 1..k : a[i] # 0]

-----------------------------------------------------------------------------
(* Python floats (IEEE 754 binary64): a number is neg, m, e with value     *)
(* (-1)^neg * m * 2^e, m odd and below 2^53, or m = 0.  Every operation is *)
(* the exact result rounded to the nearest such number, ties to the even   *)
(* mantissa.  Python's ints are these numbers too as long as they stay     *)
(* below 2^53, where int and float arithmetic agree.  The exponent range   *)
(* (overflow, subnormals) and the sign of zero are left out.               *)

\* The number m * 2^e in its one representation: m odd, or zero.
RECURSIVE Canon(_, _, _)
Canon(neg, m, e) ==
    IF m = <<>> THEN [neg |-> FALSE, m |-> <<>>, e |-> 0]
    ELSE IF m[1] = 0 THEN Canon(neg, Tail(m), e + 12)
    ELSE IF m[1] % 2 = 0 THEN Canon(neg, NatDivSmall(m, 2).q, e + 1)
    ELSE [neg |-> neg, m |-> m, e |-> e]

\* An int literal k, |k| < 2^12.
Num(k) == Canon(k < 0, IF k = 0 THEN <<>> ELSE <<IF k < 0 THEN -k ELSE k>>, 0)

Zero == Num(0)

\* The float nearest to x = m * 2^e (plus a nonzero tail below m's last bit
\* when sticky), ties to even: the mantissa is cut to 53 bits.
Round(x, sticky) ==
    LET len == BitLen(x.m)
    IN  IF Len(x.m) <= 4 \/ len <= 53 THEN Canon(x.neg, x.m, x.e)
        ELSE LET s == len - 53
                 cut == ShiftRight(x.m, s - 1)
                 q == NatDivSmall(cut.q, 2).q
                 half == IsOdd(cut.q)
                 up == half /\ (cut.sticky \/ sticky \/ IsOdd(q))
             IN  Canon(x.neg, IF up THEN NatAdd(q, <<1>>) ELSE q, x.e + s)

FNeg(x) == IF x.m = <<>> THEN x ELSE [x EXCEPT !.neg = ~x.neg]

\* x + y, not rounded.
ExactAdd(x, y) ==
    LET e == IF x.e < y.e THEN x.e ELSE y.e
        a == ShiftLeft(x.m, x.e - e)
        b == ShiftLeft(y.m, y.e - e)
        c == NatCmp(a, b)
    IN  IF x.m = <<>> THEN y
        ELSE IF y.m = <<>> THEN x
        ELSE IF x.neg = y.neg THEN [neg |-> x.neg, m |-> NatAdd(a, b), e |-> e]
        ELSE IF c = 0 THEN [neg |-> FALSE, m |-> <<>>, e |-> 0]
        ELSE IF c > 0 THEN [neg |-> x.neg, m |-> NatSub(a, b), e |-> e]
        ELSE [neg |-> y.neg, m |-> NatSub(b, a), e |-> e]

\* x * y, not rounded.
ExactMul(x, y) ==
    [neg |-> x.neg # y.neg, m |-> NatMul(x.m, y.m), e |-> x.e + y.e]

\* The float nearest to x / y, for any x = m * 2^e and a y whose mantissa
\* is limb-sized (the code divides by 100): the quotient is taken to 56 bits
\* or more, its remainder is the sticky tail.
DivNearest(x, y) ==
    LET s == IF 56 + BitLen(y.m) - BitLen(x.m) > 0
             THEN 56 + BitLen(y.m) - BitLen(x.m) ELSE 0
        d == NatDivSmall(ShiftLeft(x.m, s), y.m[1])
    IN  IF x.m = <<>> THEN Zero
        ELSE Round([neg |-> x.neg # y.neg, m |-> d.q, e |-> x.e - y.e - s], d.r # 0)

FAdd(x, y) == Round(ExactAdd(x, y), FALSE)

FSub(x, y) == Round(ExactAdd(x, FNeg(y)), FALSE)

FMul(x, y) == Round(ExactMul(x, y), FALSE)

FDiv(x, y) == DivNearest(x, y)

FLt(x, y) ==
    IF x.neg # y.neg THEN x.neg
    ELSE LET d == ExactAdd(x, FNeg(y)) IN d.m # <<>> /\ d.neg

FLe(x, y) == ~FLt(y, x)

FGt(x, y) == FLt(y, x)

-----------------------------------------------------------------------------
(* Inputs. *)

\* The float literal for k hundredths: the float nearest to k / 100.
Cents(k) == DivNearest(Num(k), Num(100))

Amounts == {Cents(-1), Cents(0), Cents(25), Cents(50), Cents(65), Cents(80)}

InitialBalances == {Cents(50)}

InterestRates == {Num(14)}

OverdraftLimits == {Cents(15)}

LockPeriods == {0, 1}

-----------------------------------------------------------------------------
(* Exceptions: every one is a ValueError, told apart by its message. *)

NoException == "no exception"

DepositNotPositive == "Deposit amount must be positive."

WithdrawalNotPositive == "Withdrawal amount must be positive."

InvalidAmount == {DepositNotPositive, WithdrawalNotPositive}

InsufficientFunds == "Insufficient funds."

OverdraftExceeded == "Exceeds overdraft limit."

LockPeriodActive == "Withdrawal not allowed before lock-in period ends."

DuplicateAccount == "Account with this number already exists."

AccountNotFound == "One or both accounts not found."

None == "None"

-----------------------------------------------------------------------------
(* Constructors: the object each __init__ builds. *)

BankAccount(account_number, balance) ==
    [cls |-> "BankAccount", account_number |-> account_number,
     balance |-> balance]

SavingsAccount(account_number, interest_rate, balance) ==
    [cls |-> "SavingsAccount", account_number |-> account_number,
     balance |-> balance, interest_rate |-> interest_rate]

CurrentAccount(account_number, overdraft_limit, balance) ==
    [cls |-> "CurrentAccount", account_number |-> account_number,
     balance |-> balance, overdraft_limit |-> overdraft_limit]

FixedDepositAccount(account_number, lock_period_days, balance, clock) ==
    [cls |-> "FixedDepositAccount", account_number |-> account_number,
     balance |-> balance, lock_period_days |-> lock_period_days,
     creation_date |-> clock]

\* timedelta(days = n), in days.
timedelta(days) == days

-----------------------------------------------------------------------------
(* Methods.  Each takes the heap and returns the exception raised (or      *)
(* NoException) and the heap it leaves.                                    *)

Raise(h, message) == [exc |-> message, heap |-> h]

Return(h) == [exc |-> NoException, heap |-> h]

\* Mutant: the amount check lets zero through.
deposit_AcceptsZero(h, self, amount) ==
    IF FLt(amount, Zero) THEN Raise(h, DepositNotPositive)
    ELSE Return([h EXCEPT ![self].balance = FAdd(@, amount)])

deposit(h, self, amount) ==
    IF FLe(amount, Zero) THEN Raise(h, DepositNotPositive)
    ELSE Return([h EXCEPT ![self].balance = FAdd(@, amount)])

\* Mutant: the funds check refuses the whole balance.
BankAccount_withdraw_NotWholeBalance(h, self, amount) ==
    IF FLe(amount, Zero) THEN Raise(h, WithdrawalNotPositive)
    ELSE IF FLe(h[self].balance, amount) THEN Raise(h, InsufficientFunds)
    ELSE Return([h EXCEPT ![self].balance = FSub(@, amount)])

BankAccount_withdraw(h, self, amount) ==
    IF FLe(amount, Zero) THEN Raise(h, WithdrawalNotPositive)
    ELSE IF FGt(amount, h[self].balance) THEN Raise(h, InsufficientFunds)
    ELSE Return([h EXCEPT ![self].balance = FSub(@, amount)])

CurrentAccount_withdraw(h, self, amount) ==
    IF FLe(amount, Zero) THEN Raise(h, WithdrawalNotPositive)
    ELSE IF FGt(amount, FAdd(h[self].balance, h[self].overdraft_limit))
         THEN Raise(h, OverdraftExceeded)
    ELSE Return([h EXCEPT ![self].balance = FSub(@, amount)])

\* Mutant: the unlock instant itself still counts as locked.
FixedDepositAccount_withdraw_LockedAtUnlock(h, self, amount, current_date) ==
    IF current_date <= h[self].creation_date + timedelta(h[self].lock_period_days)
    THEN Raise(h, LockPeriodActive)
    ELSE BankAccount_withdraw(h, self, amount)

FixedDepositAccount_withdraw(h, self, amount, current_date) ==
    IF current_date < h[self].creation_date + timedelta(h[self].lock_period_days)
    THEN Raise(h, LockPeriodActive)
    ELSE BankAccount_withdraw(h, self, amount)

\* Method resolution of self.withdraw(amount).
withdraw(h, self, amount, current_date) ==
    CASE h[self].cls = "CurrentAccount" -> CurrentAccount_withdraw(h, self, amount)
      [] h[self].cls = "FixedDepositAccount" ->
             FixedDepositAccount_withdraw(h, self, amount, current_date)
      [] OTHER -> BankAccount_withdraw(h, self, amount)

get_balance(h, self) == h[self].balance

apply_interest(h, self) ==
    LET interest == FMul(h[self].balance, FDiv(h[self].interest_rate, Num(100)))
    IN  Return([h EXCEPT ![self].balance = FAdd(@, interest)])

get_account(accts, account_number) ==
    IF account_number \in DOMAIN accts THEN accts[account_number] ELSE None

\* Mutant: no duplicate check, the later object takes the number.
add_account_Overwrite(accts, h, account) ==
    [exc |-> NoException,
     accounts |-> (h[account].account_number :> account) @@ accts]

add_account(accts, h, account) ==
    IF h[account].account_number \in DOMAIN accts
    THEN [exc |-> DuplicateAccount, accounts |-> accts]
    ELSE [exc |-> NoException,
          accounts |-> (h[account].account_number :> account) @@ accts]

\* Mutant: the destination is looked up only after the withdrawal.
transfer_funds_LateLookup(accts, h, from_account_number, to_account_number, amount, current_date) ==
    LET from_account == get_account(accts, from_account_number)
        to_account == get_account(accts, to_account_number)
    IN  IF from_account = None
        THEN Raise(h, AccountNotFound)
        ELSE LET w == withdraw(h, from_account, amount, current_date)
             IN  IF w.exc # NoException THEN w
                 ELSE IF to_account = None THEN Raise(w.heap, AccountNotFound)
                 ELSE deposit(w.heap, to_account, amount)

\* Mutant: the deposit is made before the withdrawal.
transfer_funds_DepositFirst(accts, h, from_account_number, to_account_number, amount, current_date) ==
    LET from_account == get_account(accts, from_account_number)
        to_account == get_account(accts, to_account_number)
    IN  IF from_account = None \/ to_account = None
        THEN Raise(h, AccountNotFound)
        ELSE LET d == deposit(h, to_account, amount)
             IN  IF d.exc # NoException THEN d
                 ELSE withdraw(d.heap, from_account, amount, current_date)

transfer_funds(accts, h, from_account_number, to_account_number, amount, current_date) ==
    LET from_account == get_account(accts, from_account_number)
        to_account == get_account(accts, to_account_number)
    IN  IF from_account = None \/ to_account = None
        THEN Raise(h, AccountNotFound)
        ELSE LET w == withdraw(h, from_account, amount, current_date)
             IN  IF w.exc # NoException THEN w
                 ELSE deposit(w.heap, to_account, amount)

-----------------------------------------------------------------------------
(* State machine. *)

\* What every call records: the call, and the state it was made in.
Before == [heap |-> heap, accounts |-> accounts, now |-> now]

Init ==
    /\ heap = <<>>
    /\ accounts = <<>>
    /\ now = 0
    /\ nops = 0
    /\ last = [op |-> "Bank", heap |-> <<>>, accounts |-> <<>>, now |-> 0]

Objects == DOMAIN heap

UsedIds == {heap[r].account_number : r \in Objects}

\* The account numbers a new object may take: one in use, or the next unused.
FreshIds ==
    {IdOrder[i] : i \in {j \in 1..Len(IdOrder) : j <= Cardinality(UsedIds) + 1}}

Allocate(obj) ==
    /\ Cardinality(Objects) < Len(RefOrder)
    /\ LET self == RefOrder[Cardinality(Objects) + 1]
       IN  /\ heap' = (self :> obj) @@ heap
           /\ last' = [op |-> "__init__", self |-> self] @@ Before
    /\ UNCHANGED <<accounts, now, nops>>

NewBankAccount ==
    \E id \in FreshIds, balance \in InitialBalances :
        Allocate(BankAccount(id, balance))

NewSavingsAccount ==
    \E id \in FreshIds, rate \in InterestRates, balance \in InitialBalances :
        Allocate(SavingsAccount(id, rate, balance))

NewCurrentAccount ==
    \E id \in FreshIds, limit \in OverdraftLimits, balance \in InitialBalances :
        Allocate(CurrentAccount(id, limit, balance))

NewFixedDepositAccount ==
    \E id \in FreshIds, days \in LockPeriods, balance \in InitialBalances :
        Allocate(FixedDepositAccount(id, days, balance, now))

AddAccount ==
    \E account \in Objects :
        LET r == add_account(accounts, heap, account)
        IN  /\ accounts' = r.accounts
            /\ last' = [op |-> "add_account", account |-> account,
                        exc |-> r.exc] @@ Before
            /\ UNCHANGED <<heap, now, nops>>

Call(op, self, amount, r) ==
    /\ nops < MaxOps
    /\ nops' = nops + 1
    /\ heap' = r.heap
    /\ last' = [op |-> op, self |-> self, amount |-> amount,
                exc |-> r.exc] @@ Before
    /\ UNCHANGED <<accounts, now>>

Deposit ==
    \E self \in Objects, amount \in Amounts :
        Call("deposit", self, amount, deposit(heap, self, amount))

Withdraw ==
    \E self \in Objects, amount \in Amounts :
        Call("withdraw", self, amount, withdraw(heap, self, amount, now))

ApplyInterest ==
    \E self \in Objects :
        /\ heap[self].cls = "SavingsAccount"
        /\ Call("apply_interest", self, Zero, apply_interest(heap, self))

TransferFunds ==
    \E from \in Ids, to \in Ids, amount \in Amounts :
        /\ nops < MaxOps
        /\ nops' = nops + 1
        /\ LET r == transfer_funds(accounts, heap, from, to, amount, now)
           IN  /\ heap' = r.heap
               /\ last' = [op |-> "transfer_funds", from |-> from, to |-> to,
                           amount |-> amount, exc |-> r.exc] @@ Before
        /\ UNCHANGED <<accounts, now>>

\* The wall clock moves on by a day.
Tick ==
    /\ now < MaxTime
    /\ now' = now + 1
    /\ last' = [op |-> "tick"] @@ Before
    /\ UNCHANGED <<heap, accounts, nops>>

Next ==
    \/ NewBankAccount
    \/ NewSavingsAccount
    \/ NewCurrentAccount
    \/ NewFixedDepositAccount
    \/ AddAccount
    \/ Deposit
    \/ Withdraw
    \/ ApplyInterest
    \/ TransferFunds
    \/ Tick

Spec == Init /\ [][Next]_vars

-----------------------------------------------------------------------------
(* Properties.  last holds the latest call and the state it was made in;   *)
(* heap, accounts and now are the state it left.  A balance is held as a   *)
(* float, so "the balance is x" reads: the balance is the float nearest to *)
(* x, where x is computed without rounding from the floats before the call.*)

Cls(h, r) == h[r].cls

Bal(h, r) == get_balance(h, r)

Positive(amount) == FLt(Zero, amount)

\* The instant from which a fixed deposit may be withdrawn has not come.
LockedAt(h, r, t) == t < h[r].creation_date + h[r].lock_period_days

\* The amount is one the account's own withdrawal rule accepts.
Covers(h, r, amount, t) ==
    /\ Positive(amount)
    /\ CASE Cls(h, r) = "CurrentAccount" ->
                FLe(amount, FAdd(Bal(h, r), h[r].overdraft_limit))
         [] Cls(h, r) = "FixedDepositAccount" ->
                ~LockedAt(h, r, t) /\ FLe(amount, Bal(h, r))
         [] OTHER -> FLe(amount, Bal(h, r))

Failed == last.exc # NoException

Untouched == heap = last.heap /\ accounts = last.accounts

\* A transfer between two registered numbers moved the amount from the
\* first account to the second and touched nothing else.
Moved(a, b) ==
    /\ last.exc = NoException
    /\ Bal(heap, a) = FSub(Bal(last.heap, a), last.amount)
    /\ Bal(heap, b) = FAdd(Bal(last.heap, b), last.amount)
    /\ FAdd(Bal(heap, a), Bal(heap, b)) = FAdd(Bal(last.heap, a), Bal(last.heap, b))
    /\ \A r \in Objects \ {a, b} : heap[r] = last.heap[r]
    /\ accounts = last.accounts

CoveredTransfer ==
    /\ last.op = "transfer_funds"
    /\ last.from \in DOMAIN last.accounts
    /\ last.to \in DOMAIN last.accounts
    /\ Covers(last.heap, last.accounts[last.from], last.amount, last.now)

\* C1: for any two registered ids A and B (A = B included) and any
\* amount A's withdrawal rule accepts, transfer_funds succeeds, takes the
\* amount off A's balance, adds it to B's balance, and leaves the sum of the
\* two and every other account unchanged.
C1_TransferAnyTwoIds ==
    CoveredTransfer =>
        Moved(last.accounts[last.from], last.accounts[last.to])

\* C2: transfer_funds with the source id or the destination id (or both) not
\* registered raises "accounts not found" whatever the amount, and changes
\* no balance and no registry entry.
C2_TransferUnknownId ==
    (/\ last.op = "transfer_funds"
     /\ (last.from \notin DOMAIN last.accounts \/ last.to \notin DOMAIN last.accounts))
    => (last.exc = AccountNotFound /\ Untouched)

\* A transfer of an amount the registered source could have paid, to an id
\* that is not registered, was refused.
C2_Witness ==
    /\ last.op = "transfer_funds"
    /\ last.from \in DOMAIN last.accounts
    /\ last.to \notin DOMAIN last.accounts
    /\ Covers(last.heap, last.accounts[last.from], last.amount, last.now)
    /\ last.exc = AccountNotFound

\* C3: every failed transfer_funds, whatever it raised, leaves the balances
\* of source and destination as they were; and whenever the source's
\* withdrawal is one its rule accepts, the transfer does not fail, so no
\* state has the source debited and the destination not credited.
C3_FailedTransferChangesNothing ==
    (last.op = "transfer_funds") =>
        /\ Failed => Untouched
        /\ Failed => last.exc \in InvalidAmount \cup
                                   {AccountNotFound, InsufficientFunds,
                                    OverdraftExceeded, LockPeriodActive}
        /\ CoveredTransfer => ~Failed

\* A transfer between two registered accounts failed in the source's
\* withdrawal, after the lookup: a current account was asked for more than
\* its balance and overdraft limit.
C3_Witness ==
    /\ last.op = "transfer_funds"
    /\ last.from \in DOMAIN last.accounts
    /\ last.to \in DOMAIN last.accounts
    /\ last.from # last.to
    /\ Cls(last.heap, last.accounts[last.from]) = "CurrentAccount"
    /\ last.exc = OverdraftExceeded
    /\ Untouched

WithdrawOf(classes) ==
    /\ last.op = "withdraw"
    /\ Cls(last.heap, last.self) \in classes

Debited ==
    /\ last.exc = NoException
    /\ heap = [last.heap EXCEPT ![last.self].balance = FSub(@, last.amount)]

\* C4: a current account's withdraw of an amount with
\* 0 < amount <= balance + overdraft limit succeeds and takes the amount off
\* the balance, also below zero (down to minus the limit); an amount above
\* balance + limit raises the overdraft error and leaves the balance; an
\* amount <= 0 raises the invalid-amount error, before the overdraft check.
C4_CurrentWithdraw ==
    WithdrawOf({"CurrentAccount"}) =>
        LET room == FAdd(Bal(last.heap, last.self), last.heap[last.self].overdraft_limit)
        IN  /\ ~Positive(last.amount) =>
                   (last.exc = WithdrawalNotPositive /\ Untouched)
            /\ (Positive(last.amount) /\ FLe(last.amount, room)) =>
                   (Debited /\ FLe(FSub(Zero, last.heap[last.self].overdraft_limit),
                                   Bal(heap, last.self)))
            /\ FGt(last.amount, room) =>
                   (last.exc = OverdraftExceeded /\ Untouched)

\* The base rule, as a fixed deposit follows it once unlocked.
BasicRule ==
    /\ ~Positive(last.amount) => (last.exc = WithdrawalNotPositive /\ Untouched)
    /\ FGt(last.amount, Bal(last.heap, last.self)) =>
           (last.exc = InsufficientFunds /\ Untouched)
    /\ (Positive(last.amount) /\ FLe(last.amount, Bal(last.heap, last.self))) =>
           Debited

FixedDeposits(h) == {r \in DOMAIN h : Cls(h, r) = "FixedDepositAccount"}

\* C5: a fixed deposit's withdraw while now < creation + lock period raises
\* the lock error and leaves the balance, whatever the amount and balance;
\* from that instant on (at once when the lock period is 0) it follows the
\* base rule; and as the clock never runs backwards, an account that is
\* unlocked before a step is unlocked after it.
C5_FixedDepositWithdraw ==
    /\ WithdrawOf({"FixedDepositAccount"}) =>
           IF LockedAt(last.heap, last.self, last.now)
           THEN last.exc = LockPeriodActive /\ Untouched
           ELSE BasicRule
    /\ \A r \in FixedDeposits(last.heap) :
           ~LockedAt(last.heap, r, last.now) => ~LockedAt(heap, r, now)

\* A fixed deposit with a lock period of a day paid out once the day was over.
C5_Witness ==
    /\ WithdrawOf({"FixedDepositAccount"})
    /\ last.heap[last.self].lock_period_days = 1
    /\ last.now >= last.heap[last.self].creation_date + 1
    /\ Debited

\* C6: a basic or savings account's withdraw of an amount above the balance
\* raises the insufficient-funds error and leaves the balance; of an amount
\* with 0 < amount <= balance (the whole balance included) succeeds and takes
\* exactly the amount off; of an amount <= 0 raises the invalid-amount error.
C6_BasicSavingsWithdraw ==
    WithdrawOf({"BankAccount", "SavingsAccount"}) => BasicRule

\* A savings account was emptied by withdrawing its whole balance.
C6_Witness ==
    /\ WithdrawOf({"SavingsAccount"})
    /\ last.amount = Bal(last.heap, last.self)
    /\ last.exc = NoException
    /\ Bal(heap, last.self) = Zero

\* C7: on an account of any class, locked or not, deposit of an amount <= 0
\* raises the invalid-amount error and leaves the balance; deposit of an
\* amount > 0 succeeds, with new balance = old balance + amount.
C7_Deposit ==
    (last.op = "deposit") =>
        IF Positive(last.amount)
        THEN /\ last.exc = NoException
             /\ heap = [last.heap EXCEPT ![last.self].balance = FAdd(@, last.amount)]
        ELSE last.exc = DepositNotPositive /\ Untouched

\* A deposit was taken by a fixed deposit still locked.
C7_Witness ==
    /\ last.op = "deposit"
    /\ Cls(last.heap, last.self) = "FixedDepositAccount"
    /\ LockedAt(last.heap, last.self, last.now)
    /\ last.exc = NoException
    /\ Bal(heap, last.self) = FAdd(Bal(last.heap, last.self), last.amount)

\* C8: add_account of an account whose number is registered raises the
\* duplicate error and replaces nothing: the number still maps to the object
\* registered first, whose balance is as it was; a number once registered
\* maps to the same object after every later call, and that object carries
\* the number.
C8_AddAccount ==
    /\ (last.op = "add_account") =>
           LET number == last.heap[last.account].account_number
           IN  IF number \in DOMAIN last.accounts
               THEN /\ last.exc = DuplicateAccount
                    /\ Untouched
                    /\ get_account(accounts, number) = last.accounts[number]
               ELSE /\ last.exc = NoException
                    /\ DOMAIN accounts = DOMAIN last.accounts \cup {number}
                    /\ get_account(accounts, number) = last.account
                    /\ heap = last.heap
    /\ \A number \in DOMAIN last.accounts :
           get_account(accounts, number) = last.accounts[number]
    /\ \A number \in DOMAIN accounts :
           heap[accounts[number]].account_number = number

\* A second object carrying a registered number was refused.
C8_Witness ==
    /\ last.op = "add_account"
    /\ last.exc = DuplicateAccount
    /\ last.account # accounts[heap[last.account].account_number]

\* The float that denotes old + old * rate / 100: the nearest one to the
\* exact value old * (100 + rate) / 100.
WithInterest(old, rate) ==
    DivNearest(ExactMul(old, ExactAdd(Num(100), rate)), Num(100))

\* C9: apply_interest on a savings account never fails and adds exactly
\* (balance before) * rate / 100 to the balance: the new balance is the
\* number old balance + old balance * rate / 100, also when the old balance
\* holds an earlier application's interest.
C9_ApplyInterest ==
    (last.op = "apply_interest") =>
        LET old == Bal(last.heap, last.self)
            rate == last.heap[last.self].interest_rate
        IN  /\ last.exc = NoException
            /\ heap = [last.heap EXCEPT ![last.self].balance = WithInterest(old, rate)]

Floor(h, r) ==
    IF Cls(h, r) = "CurrentAccount" THEN FSub(Zero, h[r].overdraft_limit) ELSE Zero

\* C10: in every reachable state a basic, savings or fixed-deposit account's
\* balance is >= 0 and a current account's balance is >= -overdraft limit.
C10_BalanceFloor ==
    \A r \in Objects : FLe(Floor(heap, r), Bal(heap, r))

====
